---- MODULE Spec2Model ----
(***************************************************************************)
(* LinkedBST (src/linkedbst.py): a link-based binary search tree.          *)
(*                                                                         *)
(* A node is the triple <<data, left, right>>; the absent link (None) is   *)
(* the empty tuple.  The structure is a strict tree (no sharing), so a     *)
(* node reference is identified with the subtree value it points to, and   *)
(* an in-place mutation of a node is the replacement of that subtree at    *)
(* its position.  An optional result is <<>> (None) or <<v>>.              *)
(***************************************************************************)
EXTENDS Integers, Sequences, FiniteSets

\* call is the frame of the operation whose loop is running, step by step
VARIABLES root, size, op, arg, arg2, ret, flag, err, call

vars == <<root, size, op, arg, arg2, ret, flag, err, call>>

\* ---------------------------------------------------------------- bounds
MaxItem == 3
MaxSize == 4

Items == 1..MaxItem
\* arguments of range_find: one below and one above the stored items
Bounds == 0..(MaxItem + 1)

\* ----------------------------------------------------------------- nodes
None == <<>>

BSTNode(item) == <<item, None, None>>

Node(d, l, r) == <<d, l, r>>

Data(n) == n[1]

Left(n) == n[2]

Right(n) == n[3]

isEmpty(sz) == sz = 0

\* ------------------------------------------------------------ traversals
RECURSIVE inorder_recurse(_)
inorder_recurse(node) ==
    IF node = None THEN <<>>
    ELSE inorder_recurse(Left(node)) \o <<Data(node)>> \o inorder_recurse(Right(node))

inorder(t) == inorder_recurse(t)


\* LinkedStack: a last-in-first-out stack, its top the last element
push(stack, node) == Append(stack, node)

peek(stack) == stack[Len(stack)]

popped(stack) == SubSeq(stack, 1, Len(stack) - 1)

\* the while loop of __iter__: out is the list of the items yielded so far
RECURSIVE iter_loopLeftFirst(_, _)
iter_loopLeftFirst(stack, out) ==
    IF stack = <<>> THEN out
    ELSE LET node == peek(stack)
             s0 == popped(stack)
             s1 == IF Left(node) # None THEN push(s0, Left(node)) ELSE s0
             s2 == IF Right(node) # None THEN push(s1, Right(node)) ELSE s1
         IN  iter_loopLeftFirst(s2, Append(out, Data(node)))

RECURSIVE iter_loop(_, _)
iter_loop(stack, out) ==
    IF stack = <<>> THEN out
    ELSE LET node == peek(stack)
             s0 == popped(stack)
             s1 == IF Right(node) # None THEN push(s0, Right(node)) ELSE s0
             s2 == IF Left(node) # None THEN push(s1, Left(node)) ELSE s1
         IN  iter_loop(s2, Append(out, Data(node)))

\* the items a full iteration yields
iter(t, sz) ==
    IF ~isEmpty(sz) THEN iter_loop(push(<<>>, t), <<>>) ELSE <<>>

\* ---------------------------------------------------------------- lookup
RECURSIVE find_recurseSwapped(_, _)
find_recurseSwapped(node, item) ==
    IF node = None THEN None
    ELSE IF item = Data(node) THEN <<Data(node)>>
    ELSE IF item > Data(node) THEN find_recurseSwapped(Left(node), item)
    ELSE find_recurseSwapped(Right(node), item)

RECURSIVE find_recurse(_, _)
find_recurse(node, item) ==
    IF node = None THEN None
    ELSE IF item = Data(node) THEN <<Data(node)>>
    ELSE IF item < Data(node) THEN find_recurse(Left(node), item)
    ELSE find_recurse(Right(node), item)

find(t, item) == find_recurse(t, item)

containsNonEmpty(t, item) == t # None

contains(t, item) == find(t, item) # None

\* ------------------------------------------------------------------- add
RECURSIVE add_recurseSwapped(_, _)
add_recurseSwapped(node, item) ==
    IF item > Data(node)
    THEN IF Left(node) = None
         THEN Node(Data(node), BSTNode(item), Right(node))
         ELSE Node(Data(node), add_recurseSwapped(Left(node), item), Right(node))
    ELSE IF Right(node) = None
         THEN Node(Data(node), Left(node), BSTNode(item))
         ELSE Node(Data(node), Left(node), add_recurseSwapped(Right(node), item))


RECURSIVE add_recurseTiesLeft(_, _)
add_recurseTiesLeft(node, item) ==
    IF item <= Data(node)
    THEN IF Left(node) = None
         THEN Node(Data(node), BSTNode(item), Right(node))
         ELSE Node(Data(node), add_recurseTiesLeft(Left(node), item), Right(node))
    ELSE IF Right(node) = None
         THEN Node(Data(node), Left(node), BSTNode(item))
         ELSE Node(Data(node), Left(node), add_recurseTiesLeft(Right(node), item))

RECURSIVE add_recurse(_, _)
add_recurse(node, item) ==
    IF item < Data(node)
    THEN IF Left(node) = None
         THEN Node(Data(node), BSTNode(item), Right(node))
         ELSE Node(Data(node), add_recurse(Left(node), item), Right(node))
    ELSE IF Right(node) = None
         THEN Node(Data(node), Left(node), BSTNode(item))
         ELSE Node(Data(node), Left(node), add_recurse(Right(node), item))

addNoCountDup(t, sz, item) ==
    [root |-> IF isEmpty(sz) THEN BSTNode(item) ELSE add_recurse(t, item),
     size |-> IF contains(t, item) THEN sz ELSE sz + 1]

add(t, sz, item) ==
    [root |-> IF isEmpty(sz) THEN BSTNode(item) ELSE add_recurse(t, item),
     size |-> sz + 1]

\* ---------------------------------------------------------------- remove
\* The descent of remove (and of replace): the directions taken from the
\* root to the first node whose data equals item, and whether one exists.
RECURSIVE Locate(_, _)
Locate(node, item) ==
    IF node = None THEN [found |-> FALSE, path |-> <<>>]
    ELSE IF Data(node) = item THEN [found |-> TRUE, path |-> <<>>]
    ELSE IF Data(node) > item
         THEN LET r == Locate(Left(node), item)
              IN  [found |-> r.found, path |-> <<"L">> \o r.path]
         ELSE LET r == Locate(Right(node), item)
              IN  [found |-> r.found, path |-> <<"R">> \o r.path]

\* the node a path of directions leads to
RECURSIVE NodeAt(_, _)
NodeAt(t, path) ==
    IF path = <<>> THEN t
    ELSE IF Head(path) = "L" THEN NodeAt(Left(t), Tail(path))
    ELSE NodeAt(Right(t), Tail(path))

\* the tree after the link the path ends in is set to new
RECURSIVE SetLink(_, _, _)
SetLink(t, path, new) ==
    IF path = <<>> THEN new
    ELSE IF Head(path) = "L"
         THEN Node(Data(t), SetLink(Left(t), Tail(path), new), Right(t))
         ELSE Node(Data(t), Left(t), SetLink(Right(t), Tail(path), new))

\* data of the rightmost node below (and including) n
RECURSIVE MaxData(_)
MaxData(n) == IF Right(n) = None THEN Data(n) ELSE MaxData(Right(n))

\* n after its rightmost node is replaced by that node's left child
RECURSIVE UnlinkMax(_)
UnlinkMax(n) ==
    IF Right(n) = None THEN Left(n)
    ELSE Node(Data(n), Left(n), UnlinkMax(Right(n)))


\* the mirror image of the lift: the minimum of the right subtree comes up
RECURSIVE MinData(_)
MinData(n) == IF Left(n) = None THEN Data(n) ELSE MinData(Left(n))

RECURSIVE UnlinkMin(_)
UnlinkMin(n) ==
    IF Left(n) = None THEN Right(n)
    ELSE Node(Data(n), UnlinkMin(Left(n)), Right(n))

lift_min_in_right_subtree_to_top(top) ==
    Node(MinData(Right(top)), Left(top), UnlinkMin(Right(top)))

lift_maxKeepNode(top) ==
    Node(MaxData(Left(top)), Left(top), Right(top))

lift_max_in_left_subtree_to_top(top) ==
    Node(MaxData(Left(top)), UnlinkMax(Left(top)), Right(top))

remove(t, sz, item) ==
    IF ~contains(t, item)
    THEN [root |-> t, size |-> sz, ret |-> None, err |-> "KeyError"]
    ELSE IF isEmpty(sz)
    THEN [root |-> t, size |-> sz, ret |-> None, err |-> ""]
    ELSE LET loc == Locate(t, item) IN
         IF ~loc.found
         THEN [root |-> t, size |-> sz, ret |-> None, err |-> ""]
         \* new_child is what the link to current_node holds afterwards:
         \* current_node itself, changed in place, when it has two children
         ELSE LET current_node == NodeAt(t, loc.path)
                  new_child ==
                      IF Left(current_node) # None /\ Right(current_node) # None
                      THEN lift_max_in_left_subtree_to_top(current_node)
                      ELSE IF Left(current_node) = None
                           THEN Right(current_node)
                           ELSE Left(current_node)
                  pre_root_left == SetLink(t, loc.path, new_child)
              IN  [root |-> IF isEmpty(sz - 1) THEN None ELSE pre_root_left,
                   size |-> sz - 1,
                   ret  |-> <<Data(current_node)>>,
                   err  |-> ""]

\* --------------------------------------------------------------- replace

replaceReturnsNew(t, item, new_item) ==
    LET loc == Locate(t, item) IN
    IF loc.found
    THEN LET probe == NodeAt(t, loc.path) IN
         [root |-> SetLink(t, loc.path, Node(new_item, Left(probe), Right(probe))),
          ret  |-> <<new_item>>]
    ELSE [root |-> t, ret |-> None]

replace(t, item, new_item) ==
    LET loc == Locate(t, item) IN
    IF loc.found
    THEN LET probe == NodeAt(t, loc.path) IN
         [root |-> SetLink(t, loc.path, Node(new_item, Left(probe), Right(probe))),
          ret  |-> <<Data(probe)>>]
    ELSE [root |-> t, ret |-> None]

\* ------------------------------------------------------ height / balance
Max(a, b) == IF a >= b THEN a ELSE b


RECURSIVE height1FromZero(_)
height1FromZero(top) ==
    IF top = None THEN 0
    ELSE 1 + Max(height1FromZero(Left(top)), height1FromZero(Right(top)))

RECURSIVE height1(_)
height1(top) ==
    IF top = None THEN -1
    ELSE 1 + Max(height1(Left(top)), height1(Right(top)))

height(t) == height1(t)

RECURSIVE Pow2(_)
Pow2(k) == IF k = 0 THEN 1 ELSE 2 * Pow2(k - 1)

\* ceil(log2(m)) for m >= 1: the least k with 2^k >= m
RECURSIVE CeilLog2From(_, _)
CeilLog2From(m, k) == IF Pow2(k) >= m THEN k ELSE CeilLog2From(m, k + 1)

CeilLog2(m) == CeilLog2From(m, 0)

\* ceil(log2(size + 1) - 1) = ceil(log2(size + 1)) - 1
is_balanced(t, sz) == height(t) <= CeilLog2(sz + 1) - 1

\* ------------------------------------------------------------ range_find
\* Python's range(low, high + 1) holds the integers low, ..., high
range(low, stop) == low..(stop - 1)

InRangeExclusive(item, low, high) == item \in range(low, high)

InRange(item, low, high) == item \in range(low, high + 1)

range_find(t, low, high) ==
    LET Keep(item) == InRange(item, low, high)
    IN  SelectSeq(inorder(t), Keep)

\* ------------------------------------------------------------- rebalance
\* recurse(lst) applied to the tree st = [root, size]; lst[mid_idx] of the
\* 0-based Python list is element mid_idx + 1 here
RECURSIVE rebalance_recurseSkip(_, _)
rebalance_recurseSkip(st, lst) ==
    IF lst = <<>> THEN st
    ELSE LET mid_idx == Len(lst) \div 2
             s1 == add(st.root, st.size, lst[mid_idx + 1])
             s2 == rebalance_recurseSkip(s1, SubSeq(lst, 1, mid_idx))
         IN  rebalance_recurseSkip(s2, SubSeq(lst, mid_idx + 3, Len(lst)))

RECURSIVE rebalance_recurse(_, _)
rebalance_recurse(st, lst) ==
    IF lst = <<>> THEN st
    ELSE LET mid_idx == Len(lst) \div 2
             s1 == add(st.root, st.size, lst[mid_idx + 1])
             s2 == rebalance_recurse(s1, SubSeq(lst, 1, mid_idx))
         IN  rebalance_recurse(s2, SubSeq(lst, mid_idx + 2, Len(lst)))


clearedRootOnly == [root |-> None, size |-> size]

\* clear() leaves root None and size 0
cleared == [root |-> None, size |-> 0]

rebalance(t) == rebalance_recurse(cleared, inorder(t))

\* ------------------------------------------------------------- successor
\* second loop: root is the current node, old_root the remembered datum
RECURSIVE successor_descend(_, _, _)
successor_descend(node, old_root, item) ==
    IF item > Data(node) THEN <<old_root>>
    ELSE IF Left(node) # None
         THEN successor_descend(Left(node), Data(node), item)
         ELSE <<Data(node)>>

\* first loop, continued by the second one at its break
RECURSIVE successor_skip(_, _)
successor_skip(node, item) ==
    IF item >= Data(node)
    THEN IF Right(node) # None
         THEN successor_skip(Right(node), item)
         ELSE None
    ELSE successor_descend(node, Data(node), item)

successor(t, item) == successor_skip(t, item)

\* ----------------------------------------------------------- predecessor
RECURSIVE SeqMax(_)
SeqMax(s) == IF Len(s) = 1 THEN s[1] ELSE Max(s[1], SeqMax(Tail(s)))

\* the list predecessors when the loop breaks
RECURSIVE predecessor_loopEqRight(_, _, _)
predecessor_loopEqRight(node, item, predecessors) ==
    IF item < Data(node)
    THEN IF Left(node) # None
         THEN predecessor_loopEqRight(Left(node), item, predecessors)
         ELSE predecessors
    ELSE IF item > Data(node)
    THEN IF Right(node) # None
         THEN predecessor_loopEqRight(Right(node), item, Append(predecessors, Data(node)))
         ELSE Append(predecessors, Data(node))
    ELSE IF Right(node) # None
         THEN predecessor_loopEqRight(Right(node), item, predecessors)
         ELSE predecessors

RECURSIVE predecessor_loop(_, _, _)
predecessor_loop(node, item, predecessors) ==
    IF item < Data(node)
    THEN IF Left(node) # None
         THEN predecessor_loop(Left(node), item, predecessors)
         ELSE predecessors
    ELSE IF item > Data(node)
    THEN IF Right(node) # None
         THEN predecessor_loop(Right(node), item, Append(predecessors, Data(node)))
         ELSE Append(predecessors, Data(node))
    ELSE IF Left(node) # None
         THEN predecessor_loop(Left(node), item, predecessors)
         ELSE predecessors

predecessor(t, item) ==
    LET predecessors == predecessor_loop(t, item, <<>>)
    IN  IF Len(predecessors) > 0 THEN <<SeqMax(predecessors)>> ELSE None


\* ---------------------------------------------------------- loops, by step
\* The frame of a running loop: pc names the loop, item is the argument,
\* node the variable the loop moves (root, current_node or probe), old the
\* remembered datum old_root, acc the list predecessors or the stack, and
\* out the value returned once pc is "return".
NoCall == [pc |-> "idle", item |-> 0, node |-> None, old |-> 0, acc |-> <<>>, out |-> None]

Return(c, value) == [c EXCEPT !.pc = "return", !.out = value]

\* one pass through the first loop of successor
successor_first(c) ==
    IF c.item >= Data(c.node)
    THEN IF Right(c.node) # None
         THEN [c EXCEPT !.node = Right(c.node)]
         ELSE Return(c, None)
    ELSE [c EXCEPT !.pc = "successor_second", !.old = Data(c.node)]

successor_secondStay(c) ==
    IF c.item > Data(c.node) THEN Return(c, <<c.old>>)
    ELSE IF Left(c.node) # None
         THEN [c EXCEPT !.old = Data(c.node)]
         ELSE Return(c, <<Data(c.node)>>)

\* one pass through the second loop of successor
successor_second(c) ==
    IF c.item > Data(c.node) THEN Return(c, <<c.old>>)
    ELSE IF Left(c.node) # None
         THEN [c EXCEPT !.old = Data(c.node), !.node = Left(c.node)]
         ELSE Return(c, <<Data(c.node)>>)

\* lines 356-358, reached by every break of the loop of predecessor
predecessor_result(predecessors) ==
    IF Len(predecessors) > 0 THEN <<SeqMax(predecessors)>> ELSE None

\* one pass through the loop of predecessor
predecessor_pass(c) ==
    IF c.item < Data(c.node)
    THEN IF Left(c.node) # None
         THEN [c EXCEPT !.node = Left(c.node)]
         ELSE Return(c, predecessor_result(c.acc))
    ELSE IF c.item > Data(c.node)
    THEN LET predecessors == Append(c.acc, Data(c.node)) IN
         IF Right(c.node) # None
         THEN [c EXCEPT !.node = Right(c.node), !.acc = predecessors]
         ELSE Return([c EXCEPT !.acc = predecessors], predecessor_result(predecessors))
    ELSE IF Left(c.node) # None
         THEN [c EXCEPT !.node = Left(c.node)]
         ELSE Return(c, predecessor_result(c.acc))

\* one test of the loop of remove that looks for the item; on the break
\* the node found decides between the lift and the relinking
remove_locate(c) ==
    IF c.node = None THEN Return(c, None)
    ELSE IF Data(c.node) = c.item
    THEN IF Left(c.node) # None /\ Right(c.node) # None
         THEN [c EXCEPT !.pc = "remove_lift", !.node = Left(c.node)]
         ELSE Return(c, <<Data(c.node)>>)
    ELSE IF Data(c.node) > c.item
    THEN [c EXCEPT !.node = Left(c.node)]
    ELSE [c EXCEPT !.node = Right(c.node)]

\* one test of the loop of lift_max_in_left_subtree_to_top
remove_lift(c) ==
    IF Right(c.node) # None
    THEN [c EXCEPT !.node = Right(c.node)]
    ELSE Return(c, <<c.item>>)

\* one test of the loop of replace
replace_probe(c) ==
    IF c.node = None THEN Return(c, None)
    ELSE IF Data(c.node) = c.item THEN Return(c, <<Data(c.node)>>)
    ELSE IF Data(c.node) > c.item
    THEN [c EXCEPT !.node = Left(c.node)]
    ELSE [c EXCEPT !.node = Right(c.node)]

\* one pass through the loop of __iter__: acc is the stack, out the items
\* yielded so far
iter_pass(c) ==
    IF c.acc = <<>> THEN [c EXCEPT !.pc = "return"]
    ELSE LET node == peek(c.acc)
             s0 == popped(c.acc)
             s1 == IF Right(node) # None THEN push(s0, Right(node)) ELSE s0
             s2 == IF Left(node) # None THEN push(s1, Left(node)) ELSE s1
         IN  [c EXCEPT !.acc = s2, !.out = Append(c.out, Data(node))]

\* --------------------------------------------------------------- actions
Init ==
    /\ root = None
    /\ size = 0
    /\ op = "init"
    /\ arg = 0
    /\ arg2 = 0
    /\ ret = None
    /\ flag = FALSE
    /\ err = ""
    /\ call = NoCall

Add ==
    \E item \in Items :
        /\ size < MaxSize
        /\ LET r == add(root, size, item) IN
             /\ root' = r.root
             /\ size' = r.size
        /\ op' = "add"
        /\ arg' = item
        /\ arg2' = 0
        /\ ret' = None
        /\ flag' = FALSE
        /\ err' = ""
        /\ UNCHANGED call

Remove ==
    \E item \in Items :
        /\ LET r == remove(root, size, item) IN
             /\ root' = r.root
             /\ size' = r.size
             /\ ret' = r.ret
             /\ err' = r.err
        /\ op' = "remove"
        /\ arg' = item
        /\ arg2' = 0
        /\ flag' = FALSE
        /\ UNCHANGED call

Replace ==
    \E item \in Items, new_item \in Items :
        /\ LET r == replace(root, item, new_item) IN
             /\ root' = r.root
             /\ ret' = r.ret
        /\ op' = "replace"
        /\ arg' = item
        /\ arg2' = new_item
        /\ flag' = FALSE
        /\ err' = ""
        /\ UNCHANGED size
        /\ UNCHANGED call

Clear ==
    /\ root' = cleared.root
    /\ size' = cleared.size
    /\ op' = "clear"
    /\ arg' = 0
    /\ arg2' = 0
    /\ ret' = None
    /\ flag' = FALSE
    /\ err' = ""
    /\ UNCHANGED call

Rebalance ==
    /\ LET r == rebalance(root) IN
         /\ root' = r.root
         /\ size' = r.size
    /\ op' = "rebalance"
    /\ arg' = 0
    /\ arg2' = 0
    /\ ret' = None
    /\ flag' = FALSE
    /\ err' = ""
    /\ UNCHANGED call

Find ==
    \E item \in Items :
        /\ ret' = find(root, item)
        /\ op' = "find"
        /\ arg' = item
        /\ arg2' = 0
        /\ flag' = FALSE
        /\ err' = ""
        /\ UNCHANGED <<root, size>>
        /\ UNCHANGED call

Contains ==
    \E item \in Items :
        /\ flag' = contains(root, item)
        /\ op' = "contains"
        /\ arg' = item
        /\ arg2' = 0
        /\ ret' = None
        /\ err' = ""
        /\ UNCHANGED <<root, size>>
        /\ UNCHANGED call

Height ==
    /\ ret' = <<height(root)>>
    /\ op' = "height"
    /\ arg' = 0
    /\ arg2' = 0
    /\ flag' = FALSE
    /\ err' = ""
    /\ UNCHANGED <<root, size>>
    /\ UNCHANGED call

IsBalanced ==
    /\ flag' = is_balanced(root, size)
    /\ op' = "is_balanced"
    /\ arg' = 0
    /\ arg2' = 0
    /\ ret' = None
    /\ err' = ""
    /\ UNCHANGED <<root, size>>
    /\ UNCHANGED call

RangeFind ==
    \E low \in Bounds, high \in Bounds :
        /\ ret' = range_find(root, low, high)
        /\ op' = "range_find"
        /\ arg' = low
        /\ arg2' = high
        /\ flag' = FALSE
        /\ err' = ""
        /\ UNCHANGED <<root, size>>
        /\ UNCHANGED call


Iter ==
    /\ ret' = iter(root, size)
    /\ op' = "iter"
    /\ arg' = 0
    /\ arg2' = 0
    /\ flag' = FALSE
    /\ err' = ""
    /\ UNCHANGED <<root, size>>
    /\ UNCHANGED call

\* On the empty tree root is None and root.data raises AttributeError.
Successor ==
    \E item \in Items :
        /\ IF root = None
           THEN ret' = None /\ err' = "AttributeError"
           ELSE ret' = successor(root, item) /\ err' = ""
        /\ op' = "successor"
        /\ arg' = item
        /\ arg2' = 0
        /\ flag' = FALSE
        /\ UNCHANGED <<root, size>>
        /\ UNCHANGED call

Predecessor ==
    \E item \in Items :
        /\ IF root = None
           THEN ret' = None /\ err' = "AttributeError"
           ELSE ret' = predecessor(root, item) /\ err' = ""
        /\ op' = "predecessor"
        /\ arg' = item
        /\ arg2' = 0
        /\ flag' = FALSE
        /\ UNCHANGED <<root, size>>
        /\ UNCHANGED call


\* ------------------------------------------------------------- scenario
\* the build order of the worked example
Script == <<5, 3, 8, 1, 4, 7, 9>>

ScriptItems == {Script[i] : i \in DOMAIN Script}

\* the tree after the first k items of Script were added to the empty tree
RECURSIVE ScriptBuilt(_)
ScriptBuilt(k) ==
    IF k = 0 THEN cleared
    ELSE LET prev == ScriptBuilt(k - 1)
         IN  add(prev.root, prev.size, Script[k])

\* the next item of Script is added while the tree is the one built from
\* the items before it
ScriptAdd ==
    /\ size < Len(Script)
    /\ root = ScriptBuilt(size).root
    /\ LET r == add(root, size, Script[size + 1]) IN
         /\ root' = r.root
         /\ size' = r.size
    /\ op' = "add"
    /\ arg' = Script[size + 1]
    /\ arg2' = 0
    /\ ret' = None
    /\ flag' = FALSE
    /\ err' = ""
    /\ UNCHANGED call

ScriptRemove ==
    \E item \in ScriptItems :
        /\ LET r == remove(root, size, item) IN
             /\ root' = r.root
             /\ size' = r.size
             /\ ret' = r.ret
             /\ err' = r.err
        /\ op' = "remove"
        /\ arg' = item
        /\ arg2' = 0
        /\ flag' = FALSE
        /\ UNCHANGED call


\* ------------------------------------------- operations run loop by loop
Idle == call.pc = "idle"

\* successor: root = self._root, then the first loop
SuccessorBegin ==
    \E item \in Items :
        /\ Idle
        /\ IF root = None
           THEN call' = NoCall /\ err' = "AttributeError"
           ELSE /\ call' = [NoCall EXCEPT !.pc = "successor_first",
                                          !.item = item, !.node = root]
                /\ err' = ""
        /\ op' = "successor"
        /\ arg' = item
        /\ arg2' = 0
        /\ ret' = None
        /\ flag' = FALSE
        /\ UNCHANGED <<root, size>>

SuccessorFirst ==
    /\ call.pc = "successor_first"
    /\ LET n == successor_first(call) IN
         IF n.pc = "return"
         THEN call' = NoCall /\ ret' = n.out
         ELSE call' = n /\ UNCHANGED ret
    /\ UNCHANGED <<root, size, op, arg, arg2, flag, err>>

SuccessorSecond ==
    /\ call.pc = "successor_second"
    /\ LET n == successor_second(call) IN
         IF n.pc = "return"
         THEN call' = NoCall /\ ret' = n.out
         ELSE call' = n /\ UNCHANGED ret
    /\ UNCHANGED <<root, size, op, arg, arg2, flag, err>>

PredecessorBegin ==
    \E item \in Items :
        /\ Idle
        /\ IF root = None
           THEN call' = NoCall /\ err' = "AttributeError"
           ELSE /\ call' = [NoCall EXCEPT !.pc = "predecessor_loop",
                                          !.item = item, !.node = root]
                /\ err' = ""
        /\ op' = "predecessor"
        /\ arg' = item
        /\ arg2' = 0
        /\ ret' = None
        /\ flag' = FALSE
        /\ UNCHANGED <<root, size>>

PredecessorPass ==
    /\ call.pc = "predecessor_loop"
    /\ LET n == predecessor_pass(call) IN
         IF n.pc = "return"
         THEN call' = NoCall /\ ret' = n.out
         ELSE call' = n /\ UNCHANGED ret
    /\ UNCHANGED <<root, size, op, arg, arg2, flag, err>>

\* remove: the membership test and the guard on the empty tree, then the
\* loop that looks for the item
RemoveBegin ==
    \E item \in Items :
        /\ Idle
        /\ IF ~contains(root, item)
           THEN call' = NoCall /\ err' = "KeyError"
           ELSE IF isEmpty(size)
           THEN call' = NoCall /\ err' = ""
           ELSE /\ call' = [NoCall EXCEPT !.pc = "remove_locate",
                                          !.item = item, !.node = root]
                /\ err' = ""
        /\ op' = "remove"
        /\ arg' = item
        /\ arg2' = 0
        /\ ret' = None
        /\ flag' = FALSE
        /\ UNCHANGED <<root, size>>

\* When the loops are through, the relinking, the new size and the new
\* root are those of remove.
RemoveLocate ==
    /\ call.pc = "remove_locate"
    /\ LET n == remove_locate(call) IN
         IF n.pc = "return"
         THEN /\ call' = NoCall
              /\ IF n.out = None
                 THEN ret' = None /\ UNCHANGED <<root, size>>
                 ELSE LET r == remove(root, size, call.item) IN
                        /\ root' = r.root
                        /\ size' = r.size
                        /\ ret' = r.ret
         ELSE call' = n /\ UNCHANGED <<root, size, ret>>
    /\ UNCHANGED <<op, arg, arg2, flag, err>>

RemoveLift ==
    /\ call.pc = "remove_lift"
    /\ LET n == remove_lift(call) IN
         IF n.pc = "return"
         THEN /\ call' = NoCall
              /\ LET r == remove(root, size, call.item) IN
                   /\ root' = r.root
                   /\ size' = r.size
                   /\ ret' = r.ret
         ELSE call' = n /\ UNCHANGED <<root, size, ret>>
    /\ UNCHANGED <<op, arg, arg2, flag, err>>

\* replace: probe = self._root, then the loop; old holds new_item
ReplaceBegin ==
    \E item \in Items, new_item \in Items :
        /\ Idle
        /\ call' = [NoCall EXCEPT !.pc = "replace_loop", !.item = item,
                                  !.node = root, !.old = new_item]
        /\ op' = "replace"
        /\ arg' = item
        /\ arg2' = new_item
        /\ ret' = None
        /\ flag' = FALSE
        /\ err' = ""
        /\ UNCHANGED <<root, size>>

ReplaceProbe ==
    /\ call.pc = "replace_loop"
    /\ LET n == replace_probe(call) IN
         IF n.pc = "return"
         THEN /\ call' = NoCall
              /\ LET r == replace(root, call.item, call.old) IN
                   /\ root' = r.root
                   /\ ret' = r.ret
         ELSE call' = n /\ UNCHANGED <<root, ret>>
    /\ UNCHANGED <<size, op, arg, arg2, flag, err>>

\* iteration to the end: the stack holds the root unless the tree is empty
IterBegin ==
    /\ Idle
    /\ call' = [NoCall EXCEPT !.pc = "iter_loop",
                              !.acc = IF ~isEmpty(size) THEN push(<<>>, root) ELSE <<>>]
    /\ op' = "iter"
    /\ arg' = 0
    /\ arg2' = 0
    /\ ret' = None
    /\ flag' = FALSE
    /\ err' = ""
    /\ UNCHANGED <<root, size>>

IterPass ==
    /\ call.pc = "iter_loop"
    /\ LET n == iter_pass(call) IN
         IF n.pc = "return"
         THEN call' = NoCall /\ ret' = n.out
         ELSE call' = n /\ UNCHANGED ret
    /\ UNCHANGED <<root, size, op, arg, arg2, flag, err>>

\* an operation starts only when no other is running (one thread)
AddWhenIdle == Idle /\ Add

\* a running loop makes its next pass
LoopPass ==
    \/ SuccessorFirst
    \/ SuccessorSecond
    \/ PredecessorPass
    \/ RemoveLocate
    \/ RemoveLift
    \/ ReplaceProbe
    \/ IterPass

\* ------------------------------------------------------- specifications
\* trees built by inserts alone
NextIns == Add \/ Successor

SpecIns == Init /\ [][NextIns]_vars

\* trees reachable by inserts and removes (and rebuilt by rebalance)
NextIR ==
    \/ Add
    \/ Remove
    \/ Rebalance
    \/ Find
    \/ Contains
    \/ Predecessor
    \/ RangeFind

SpecIR == Init /\ [][NextIR]_vars


\* the worked example, on top of the trees reachable by inserts and removes
NextScript ==
    \/ ScriptAdd
    \/ ScriptRemove
    \/ Height
    \/ NextIR

SpecScript == Init /\ [][NextScript]_vars


\* the loops of the class run pass by pass; a started call keeps running
NextLoops ==
    \/ AddWhenIdle
    \/ SuccessorBegin
    \/ PredecessorBegin
    \/ RemoveBegin
    \/ ReplaceBegin
    \/ IterBegin
    \/ LoopPass

SpecLoops == Init /\ [][NextLoops]_vars /\ WF_vars(LoopPass)

\* every operation
Next ==
    \/ Add
    \/ Remove
    \/ Replace
    \/ Clear
    \/ Rebalance
    \/ Find
    \/ Contains
    \/ Height
    \/ IsBalanced
    \/ RangeFind
    \/ Successor
    \/ Predecessor
    \/ Iter

Spec == Init /\ [][Next]_vars

\* ------------------------------------------------- vocabulary of claims
IsSorted(s) == \A i \in 1..(Len(s) - 1) : s[i] <= s[i + 1]

RECURSIVE NumNodes(_)
NumNodes(t) == IF t = None THEN 0 ELSE 1 + NumNodes(Left(t)) + NumNodes(Right(t))

\* number of nodes of t that hold x
RECURSIVE Count(_, _)
Count(t, x) ==
    IF t = None THEN 0
    ELSE (IF Data(t) = x THEN 1 ELSE 0) + Count(Left(t), x) + Count(Right(t), x)

Stored(t, x) == Count(t, x) > 0

CountSeq(s, x) == Cardinality({i \in DOMAIN s : s[i] = x})

HasDuplicate(t) == \E x \in Items : Count(t, x) >= 2

Least(S) == CHOOSE x \in S : \A y \in S : x <= y

Greatest(S) == CHOOSE x \in S : \A y \in S : x >= y

LeastGreater(t, item) ==
    LET G == {x \in Items : Stored(t, x) /\ x > item}
    IN  IF G = {} THEN None ELSE <<Least(G)>>

GreatestLess(t, item) ==
    LET G == {x \in Items : Stored(t, x) /\ x < item}
    IN  IF G = {} THEN None ELSE <<Greatest(G)>>

\* C1: after any sequence of inserts and removes (duplicates allowed) the
\* in-order traversal yields the stored items in non-decreasing order.
C1_InorderSorted == IsSorted(inorder(root))

C1_Witness ==
    /\ op = "remove"
    /\ ret # None
    /\ size >= 3
    /\ HasDuplicate(root)

\* C2: size always equals the number of nodes reachable from root; an
\* insert raises it by exactly 1 (also for a duplicate), a successful
\* remove lowers it by exactly 1, and clear sets it to 0.
C2_SizeCounts ==
    /\ [](size = NumNodes(root))
    /\ [][/\ op' = "add" => size' = size + 1
          /\ (op' = "remove" /\ ret' # None) => size' = size - 1
          /\ op' = "clear" => size' = 0]_vars

C2_Witness ==
    /\ op = "add"
    /\ Count(root, arg) >= 2
    /\ size >= 3
    /\ size = NumNodes(root)

\* C3: remove(item) of an item that is not stored raises KeyError and
\* leaves root, every link, every datum and size as they were.
C3_RemoveAbsent ==
    [][(op' = "remove" /\ ~Stored(root, arg'))
         => (err' = "KeyError" /\ ret' = None /\ root' = root /\ size' = size)]_vars

C3_Witness ==
    /\ op = "remove"
    /\ err = "KeyError"
    /\ ~Stored(root, arg)
    /\ size >= 2

\* C4: remove(item) of a stored item returns a value equal to item and
\* removes exactly one occurrence: every other item keeps its multiplicity,
\* and contains(item) afterwards is true exactly when item was stored more
\* than once.
C4_RemovePresent ==
    [][(op' = "remove" /\ Stored(root, arg'))
         => /\ err' = ""
            /\ ret' = <<arg'>>
            /\ \A x \in Items :
                 Count(root', x) = Count(root, x) - (IF x = arg' THEN 1 ELSE 0)
            /\ contains(root', arg') <=> (Count(root, arg') > 1)]_vars

C4_Witness ==
    /\ op = "remove"
    /\ ret = <<arg>>
    /\ contains(root, arg)
    /\ size >= 2

\* C5: immediately after rebalance() on any n items (duplicates allowed)
\* height() <= ceil(log2(n + 1)) - 1.
C5_BalancedAfterRebalance ==
    op = "rebalance" => height(root) <= CeilLog2(size + 1) - 1

\* C6: on a non-empty tree built by inserts, successor(item) of a stored
\* item is the smallest stored item strictly greater than item, and nothing
\* exactly when there is none.
C6_Successor ==
    (op = "successor" /\ root # None /\ Stored(root, arg))
        => (err = "" /\ ret = LeastGreater(root, arg))

\* C7: on a non-empty tree reachable by inserts and removes, predecessor(item)
\* of a stored item is the largest stored item strictly less than item, and
\* nothing exactly when there is none.
C7_Predecessor ==
    (op = "predecessor" /\ root # None /\ Stored(root, arg))
        => (err = "" /\ ret = GreatestLess(root, arg))

C7_Witness ==
    /\ op = "predecessor"
    /\ Stored(root, arg)
    /\ ret # None
    /\ size >= 3
    /\ Left(root) # None
    /\ Data(Left(root)) = Data(root)

\* C8: rebalance() preserves the contents: the in-order traversal after it
\* equals the one before it, and size is unchanged.
C8_RebalancePreserves ==
    [][op' = "rebalance"
         => (inorder(root') = inorder(root) /\ size' = size)]_vars

C8_Witness ==
    /\ op = "rebalance"
    /\ size >= 3
    /\ HasDuplicate(root)
    /\ Left(root) # None

\* C9: contains(item) is true iff some stored item equals item; find(item)
\* returns a value equal to item in that case and nothing otherwise; neither
\* raises, also on the empty tree.
C9_FindContains ==
    /\ op = "contains" => (err = "" /\ (flag <=> Stored(root, arg)))
    /\ op = "find" =>
         (err = "" /\ ret = (IF Stored(root, arg) THEN <<arg>> ELSE None))

C9_Witness ==
    /\ op = "find"
    /\ ret = <<arg>>
    /\ size >= 3
    /\ Data(root) # arg

\* C10: range_find(low, high) returns exactly the stored items x with
\* low <= x <= high, each duplicate included, in ascending order; it is
\* empty when low > high.
C10_RangeFind ==
    op = "range_find" =>
        /\ IsSorted(ret)
        /\ \A i \in DOMAIN ret : ret[i] \in Items
        /\ \A x \in Items :
             CountSeq(ret, x) =
                 (IF arg <= x /\ x <= arg2 THEN Count(root, x) ELSE 0)
        /\ arg > arg2 => ret = <<>>

C10_Witness ==
    /\ op = "range_find"
    /\ arg <= arg2
    /\ Len(ret) >= 2
    /\ Len(ret) < size
    /\ ret[Len(ret)] = arg2

\* trees of one shape: the tree with every datum erased
RECURSIVE Shape(_)
Shape(t) == IF t = None THEN None ELSE Node(0, Shape(Left(t)), Shape(Right(t)))

\* the data of t listed position by position (self, left, right)
RECURSIVE Flat(_)
Flat(t) == IF t = None THEN <<>> ELSE <<Data(t)>> \o Flat(Left(t)) \o Flat(Right(t))

ItemsOf(t) == {x \in 1..9 : Stored(t, x)}

RECURSIVE BstOrder(_)
BstOrder(t) ==
    \/ t = None
    \/ /\ \A x \in ItemsOf(Left(t)) : x <= Data(t)
       /\ \A x \in ItemsOf(Right(t)) : x >= Data(t)
       /\ BstOrder(Left(t))
       /\ BstOrder(Right(t))

\* no node has an item equal to its own in its left subtree
RECURSIVE NoTieLeft(_)
NoTieLeft(t) ==
    \/ t = None
    \/ /\ ~Stored(Left(t), Data(t))
       /\ NoTieLeft(Left(t))
       /\ NoTieLeft(Right(t))

\* C11: in every state reachable by insert, remove, replace, clear and
\* rebalance, every item in a node's left subtree is <= the node's item and
\* every item in its right subtree is >= it.
C11_BstOrder == BstOrder(root)

\* C13: root is absent iff size = 0; removing the last item leaves root
\* absent, and a successful remove from a larger tree leaves it present.
C13_RootAbsentIffEmpty ==
    /\ []((root = None) <=> (size = 0))
    /\ [][(op' = "remove" /\ ret' # None) =>
            /\ size = 1 => root' = None
            /\ size > 1 => root' # None]_vars

C13_Witness ==
    /\ op = "remove"
    /\ ret # None
    /\ root = None
    /\ size = 0

\* C14: replace(item, new_item) never changes shape or size; when item is
\* found on the descent exactly that node's data becomes new_item and the
\* prior value is returned; otherwise nothing is returned, no error is
\* raised and every datum stays.
C14_ReplaceFrame ==
    [][op' = "replace" =>
         /\ size' = size
         /\ err' = ""
         /\ Shape(root') = Shape(root)
         /\ IF contains(root, arg')
            THEN /\ ret' = <<arg'>>
                 /\ \E i \in DOMAIN Flat(root) :
                      /\ Flat(root)[i] = arg'
                      /\ Flat(root') = [Flat(root) EXCEPT ![i] = arg2']
            ELSE /\ ret' = None
                 /\ root' = root]_vars

C14_Witness ==
    /\ op = "replace"
    /\ ret = <<arg>>
    /\ arg # arg2
    /\ size >= 3
    /\ Data(root) # arg2

\* C17 as stated: after any sequence of inserts and removes no node's left
\* subtree holds an item equal to the node's own.
C17_TiesRight == NoTieLeft(root)

\* C17 as amended: insert, rebalance and a remove that hits a node with at
\* most one child keep ties out of every left subtree; only a remove that
\* hits a node with two children can leave one there.
C17_TiesRightButLift ==
    [][(/\ NoTieLeft(root)
        /\ ~(/\ op' = "remove"
             /\ ret' # None
             /\ LET current_node == NodeAt(root, Locate(root, arg').path)
                IN  Left(current_node) # None /\ Right(current_node) # None))
         => NoTieLeft(root')]_vars

C17_Witness ==
    /\ op = "remove"
    /\ ret # None
    /\ NoTieLeft(root)
    /\ HasDuplicate(root)
    /\ size >= 3

\* recursive pre-order: self, then the whole left subtree, then the right
RECURSIVE PreorderRec(_)
PreorderRec(t) ==
    IF t = None THEN <<>>
    ELSE <<Data(t)>> \o PreorderRec(Left(t)) \o PreorderRec(Right(t))

\* C18: default iteration with the explicit stack yields exactly the
\* recursive pre-order sequence, one item per node, hence size items, and
\* nothing on the empty tree.
C18_IterIsPreorder ==
    op = "iter" =>
        /\ err = ""
        /\ ret = PreorderRec(root)
        /\ Len(ret) = size
        /\ Len(ret) = NumNodes(root)
        /\ root = None => ret = <<>>

C18_Witness ==
    /\ op = "iter"
    /\ size >= 3
    /\ Left(root) # None
    /\ Right(root) # None
    /\ ret[2] = Data(Left(root))

ScriptTree == ScriptBuilt(Len(Script)).root

\* C12 as stated: after the inserts 5, 3, 8, 1, 4, 7, 9 height() returns 3.
C12_HeightThree ==
    (op = "height" /\ root = ScriptTree) => ret = <<3>>

\* C12 as amended: after the inserts 5, 3, 8, 1, 4, 7, 9 height() returns
\* 2, the height of the empty tree being -1.
C12_HeightTwo ==
    /\ (op = "height" /\ root = ScriptTree) => ret = <<2>>
    /\ (op = "height" /\ root = None) => ret = <<-1>>

C12_Witness ==
    /\ op = "height"
    /\ size = 7
    /\ root = ScriptTree
    /\ Flat(root) = <<5, 3, 1, 4, 8, 7, 9>>

\* the directions from n to its rightmost node
RECURSIVE RightmostPath(_)
RightmostPath(n) ==
    IF Right(n) = None THEN <<>> ELSE <<"R">> \o RightmostPath(Right(n))

FloorLog2(n) == CHOOSE k \in 0..n : Pow2(k) <= n /\ n < Pow2(k + 1)

Distinct(t) == \A x \in ItemsOf(t) : Count(t, x) = 1

\* every level of t is full
IsPerfect(t) == NumNodes(t) = Pow2(height(t) + 1) - 1

\* C19: when the n >= 1 stored items are pairwise distinct, rebalance()
\* leaves height() = floor(log2(n)), and a perfect shape when n + 1 is a
\* power of two.
C19_MinimalHeight ==
    (op = "rebalance" /\ size >= 1 /\ Distinct(root)) =>
        /\ height(root) = FloorLog2(size)
        /\ (\E k \in 1..size : size = Pow2(k) - 1) => IsPerfect(root)

\* C15: every operation started on a reachable tree runs to its end; the
\* loops of successor, predecessor, remove, replace and the iteration each
\* reach their return.
C15_Terminates == (call.pc # "idle") ~> (call.pc = "idle")

C15_Witness ==
    /\ op = "successor"
    /\ Idle
    /\ ret # None
    /\ size >= 3
    /\ Stored(Left(root), arg)
====
